---- MODULE Spec2Model ----
(***************************************************************************)
(* Holiday synchronisation engine of the MortgagePros calendar server:     *)
(* server/src/services/syncService.ts (syncHolidays, the four provider     *)
(* adapters, syncRecurringHolidays, getSyncLogs), its two triggers (the    *)
(* cron job of the server entry point and POST /api/sync-holidays) and the *)
(* admin routes that write the stores the engine reads.                    *)
(*                                                                         *)
(* A JavaScript string that the code takes apart (a date, an ISO           *)
(* timestamp, a dot path) is a sequence of tokens in which every separator *)
(* character ("-", "/", "T", ".") is a token of its own, so "2024-03-15"   *)
(* is <<"2024", "-", "03", "-", "15">>.  split, padStart and the template  *)
(* strings of the code are computed on that representation.                *)
(***************************************************************************)
EXTENDS Integers, Sequences, FiniteSets, TLC

\* ------------------------------------------------------------- JS values

\* The value of an absent property or an omitted argument (a title, a key).
Undefined == "<undefined>"

\* An absent date string.
NoDate == <<>>

\* !x for the string-valued settings of a config (undefined and "" are falsy).
Falsy(s) == s \in {Undefined, ""}

RECURSIVE SplitAcc(_, _, _, _)
SplitAcc(s, sep, cur, acc) ==
  IF s = <<>> THEN Append(acc, cur)
  ELSE IF Head(s) = sep THEN SplitAcc(Tail(s), sep, <<>>, Append(acc, cur))
  ELSE SplitAcc(Tail(s), sep, Append(cur, Head(s)), acc)

\* String.prototype.split(sep): the parts between the separators.
Split(s, sep) == SplitAcc(s, sep, <<>>, <<>>)

\* parts[n] of a split, as it prints in a template string.
Part(parts, n) == IF n <= Len(parts) THEN parts[n] ELSE <<"undefined">>

RECURSIVE Flatten(_)
Flatten(p) == IF p = <<>> THEN "" ELSE Head(p) \o Flatten(Tail(p))

\* String.prototype.padStart(2, '0').
PadStart2(p) ==
  LET str == Flatten(p)
  IN  IF Len(str) >= 2 THEN p
      ELSE IF Len(str) = 1 THEN <<"0" \o str>>
      ELSE <<"00">>

\* `${year}-${month}-${day}`
DateOf(y, m, d) == y \o <<"-">> \o m \o <<"-">> \o d

\* A year number printed in a template string.
YearStr(year) == <<ToString(year)>>

\* obj[field] of a response entry: a string-valued and a date-valued read.
GetStr(obj, f) == IF f \in DOMAIN obj THEN obj[f] ELSE Undefined
GetDate(obj, f) == IF f \in DOMAIN obj THEN obj[f] ELSE NoDate

\* ------------------------------------------------------ syncService.ts

CATEGORY_COLORS(category) ==
  CASE category = "federal" -> "#06427F"
    [] category = "fun" -> "#7B7E77"
    [] category = "company" -> "#059669"
    [] OTHER -> Undefined

\* (a color taken from the config alone)
ConfigColor(config) == config.color

\* config.color || CATEGORY_COLORS[config.category]
ColorOf(config) ==
  IF Falsy(config.color) THEN CATEGORY_COLORS(config.category) ELSE config.color

\* prisma.holiday.findFirst({where}): an undefined field of `where` is no
\* filter; the first matching row in id order, or 0 for null.
\* (a lookup whose undefined fields are compared like any value)
MatchesLiterally(h, w) ==
  /\ h.title = w.title
  /\ h.date = w.date
  /\ h.source = w.source

\* (a lookup that sees only the visible rows)
MatchesVisible(h, w) ==
  /\ h.visible
  /\ (w.title = Undefined \/ h.title = w.title)
  /\ (w.date = NoDate \/ h.date = w.date)
  /\ (w.source = Undefined \/ h.source = w.source)

Matches(h, w) ==
  /\ (w.title = Undefined \/ h.title = w.title)
  /\ (w.date = NoDate \/ h.date = w.date)
  /\ (w.source = Undefined \/ h.source = w.source)

\* (a lookup that finds nothing)
FindFirstMisses(store, w) == 0

FindFirst(store, w) ==
  LET hits == {n \in 1..Len(store) : Matches(store[n], w)}
  IN  IF hits = {} THEN 0 ELSE CHOOSE n \in hits : \A m \in hits : n <= m

\* prisma.holiday.create rejects a row whose required title or date is missing.
CreateThrows(title, date) == title = Undefined \/ date = NoDate

\* (an adapter that files every row under federal)
ProviderRowFederal(config, title, date) ==
  [title |-> title, date |-> date, category |-> "federal",
   color |-> ColorOf(config), source |-> config.id,
   visible |-> TRUE, recurring |-> FALSE]

\* The row a provider adapter creates.
ProviderRow(config, title, date) ==
  [title |-> title, date |-> date, category |-> config.category,
   color |-> ColorOf(config), source |-> config.id,
   visible |-> TRUE, recurring |-> FALSE]

\* (no filter: every config of the list, enabled or not)
AllConfigs(list) == list

\* configs.filter(c => c.enabled)
EnabledConfigs(list) == SelectSeq(list, LAMBDA c : c.enabled)

\* ------------------------------------------------ provider responses

\* A JSON payload: an array, an object (its fields), or null.
Arr(items) == [t |-> "array", v |-> items]
Obj(fields) == [t |-> "object", v |-> fields]
Null == [t |-> "null"]

\* holidays?.[p]: a property of an object, undefined of anything else.
Prop(val, p) ==
  IF val.t = "object" /\ p \in DOMAIN val.v THEN val.v[p] ELSE [t |-> "undefined"]

RECURSIVE Walk(_, _)
Walk(val, names) ==
  IF names = <<>> THEN val ELSE Walk(Prop(val, Head(names)), Tail(names))

\* config.responsePathToHolidays.split('.'), each segment as a property name.
PathNames(path) ==
  LET parts == Split(path, ".")
  IN  [n \in 1..Len(parts) |-> Flatten(parts[n])]

\* What an adapter does with the payload of a 2xx response: iterate a list,
\* throw into its catch block, or (custom) return 0 at once.
Listed(items) == [act |-> "iterate", list |-> items]
Thrown == [act |-> "throw", list |-> <<>>]
Bailed == [act |-> "return0", list |-> <<>>]

\* syncNagerApi: for (const holiday of response.data)
NagerHolidays(data) == IF data.t = "array" THEN Listed(data.v) ELSE Thrown

\* syncCalendarificApi: response.data?.response?.holidays || []
CalendarificHolidays(data) ==
  LET hs == Walk(data, <<"response", "holidays">>)
  IN  IF hs.t = "array" THEN Listed(hs.v)
      ELSE IF hs.t \in {"undefined", "null"} THEN Listed(<<>>)
      ELSE Thrown

\* syncAbstractApi: response.data || [], then the Array.isArray check
AbstractHolidays(data) ==
  IF data.t = "array" THEN Listed(data.v)
  ELSE IF data.t = "null" THEN Listed(<<>>)
  ELSE Thrown

\* (a walk that throws into the catch block when it ends on no array)
CustomHolidaysOrThrow(config, data) ==
  LET hs == IF config.responsePathToHolidays = <<>> THEN data
            ELSE Walk(data, PathNames(config.responsePathToHolidays))
  IN  IF hs.t = "array" THEN Listed(hs.v) ELSE Thrown

\* syncCustomApi: the walk along responsePathToHolidays, then Array.isArray
CustomHolidays(config, data) ==
  LET hs == IF config.responsePathToHolidays = <<>> THEN data
            ELSE Walk(data, PathNames(config.responsePathToHolidays))
  IN  IF hs.t = "array" THEN Listed(hs.v) ELSE Bailed

HolidaysOf(config, data) ==
  CASE config.type = "nager" -> NagerHolidays(data)
    [] config.type = "calendarific" -> CalendarificHolidays(data)
    [] config.type = "abstract" -> AbstractHolidays(data)
    [] OTHER -> CustomHolidays(config, data)

\* One entry of the list, as the adapter's loop body reads it: skipped by
\* `continue`, or looked up and created under (title, date).
Skip == [skip |-> TRUE, title |-> Undefined, date |-> NoDate]
Upsert(title, date) == [skip |-> FALSE, title |-> title, date |-> date]

NagerEntry(h) == Upsert(GetStr(h, "name"), GetDate(h, "date"))

\* holiday.date?.iso?.split('T')[0]
CalendarificEntry(h) ==
  LET iso == IF "date" \in DOMAIN h /\ "iso" \in DOMAIN h.date
             THEN h.date.iso ELSE NoDate
      dateStr == IF iso = NoDate THEN NoDate ELSE Split(iso, "T")[1]
  IN  IF dateStr = NoDate THEN Skip ELSE Upsert(GetStr(h, "name"), dateStr)

\* processHolidays of syncAbstractApi
AbstractEntry(h) ==
  IF /\ ~Falsy(GetStr(h, "date_year")) /\ ~Falsy(GetStr(h, "date_month"))
     /\ ~Falsy(GetStr(h, "date_day"))
  THEN Upsert(GetStr(h, "name"),
              DateOf(<<h.date_year>>, PadStart2(<<h.date_month>>),
                     PadStart2(<<h.date_day>>)))
  ELSE IF GetDate(h, "date") # NoDate
  THEN LET parts == Split(h.date, "/")
       IN  IF Len(parts) = 3
           THEN Upsert(GetStr(h, "name"),
                       DateOf(parts[3], PadStart2(parts[1]), PadStart2(parts[2])))
           ELSE Upsert(GetStr(h, "name"), h.date)
  ELSE Skip

\* the loop body of syncCustomApi
CustomEntry(config, h) ==
  LET dateField == IF Falsy(config.dateField) THEN "date" ELSE config.dateField
      titleField == IF Falsy(config.titleField) THEN "name" ELSE config.titleField
      dateStr == GetDate(h, dateField)
      title == GetStr(h, titleField)
  IN  IF dateStr = NoDate \/ Falsy(title) THEN Skip ELSE Upsert(title, dateStr)

EntryOf(config, h) ==
  CASE config.type = "nager" -> NagerEntry(h)
    [] config.type = "calendarific" -> CalendarificEntry(h)
    [] config.type = "abstract" -> AbstractEntry(h)
    [] OTHER -> CustomEntry(config, h)

\* syncCalendarificApi, syncAbstractApi: if (!config.apiKey) return 0
NeedsKey(config) == config.type \in {"calendarific", "abstract"}
\* (a key check that lets the empty string through)
SkippedForUndefinedKey(config) == NeedsKey(config) /\ config.apiKey = Undefined
SkippedForKey(config) == NeedsKey(config) /\ Falsy(config.apiKey)

\* syncFromApi: the types that have an adapter
KnownType(config) == config.type \in {"nager", "calendarific", "abstract", "custom"}

\* (a loop over the days of a common year, whatever the year)
DaysInCommonYear(year) == 365

\* The free-plan loop of syncAbstractApi queries this many days.
DaysInYear(year) ==
  IF (year % 4 = 0 /\ year % 100 # 0) \/ year % 400 = 0 THEN 366 ELSE 365

\* (a year swap that moves February 29 to February 28 in a common year)
RolledDateClamped(date, year) ==
  LET parts == Split(date, "-")
      day == IF Part(parts, 2) = <<"02">> /\ Part(parts, 3) = <<"29">>
                /\ DaysInYear(year) = 365
             THEN <<"28">> ELSE Part(parts, 3)
  IN  DateOf(YearStr(year), Part(parts, 2), day)

\* syncRecurringHolidays: the date of a recurring row moved to `year`
RolledDate(date, year) ==
  LET parts == Split(date, "-")
  IN  DateOf(YearStr(year), Part(parts, 2), Part(parts, 3))

\* (a rolled row that is not flagged to roll on)
RolledRowOnce(h, year) ==
  [title |-> h.title, date |-> RolledDate(h.date, year), category |-> h.category,
   color |-> h.color, source |-> h.source, visible |-> h.visible,
   recurring |-> FALSE]

\* The row syncRecurringHolidays creates for the recurring row h.
RolledRow(h, year) ==
  [title |-> h.title, date |-> RolledDate(h.date, year), category |-> h.category,
   color |-> h.color, source |-> h.source, visible |-> h.visible,
   recurring |-> TRUE]

\* (findMany of the recurring rows an admin entered: source 'custom' only)
RecurringCustomRows(store) == SelectSeq(store, LAMBDA h : h.recurring /\ h.source = "custom")

\* prisma.holiday.findMany({where: {recurring: true}})
RecurringRows(store) == SelectSeq(store, LAMBDA h : h.recurring)

\* prisma.syncLog.create({data})
LogRow(config, status, message) ==
  [source |-> config.id, status |-> status, message |-> message]

\* `Synced ${count} holidays for ${year}` and its free-plan variant
SyncedMessage(count, year) == [text |-> "Synced", count |-> count, year |-> year]
FreePlanMessage(count, year) ==
  [text |-> "Synced (free plan - day by day)", count |-> count, year |-> year]
ErrorMessage(text) == [text |-> text, count |-> 0, year |-> 0]

\* (an upsert keyed on the provider: the provider's earlier rows are replaced)
SyncLogUpsert(log, data) == Append(SelectSeq(log, LAMBDA x : x.source # data.source), data)

\* prisma.syncLog.create({ data })
SyncLogCreate(log, data) == Append(log, data)

\* The SyncLog table with the syncedAt the database stamps on each row: the
\* rows are kept in insertion order, so the position of a row is its time.
Stamped(log) ==
  [n \in 1..Len(log) |->
     [source |-> log[n].source, status |-> log[n].status,
      message |-> log[n].message, syncedAt |-> n]]

\* (orderBy: { syncedAt: 'asc' })
OrderBySyncedAtAsc(rows) ==
  [k \in 1..Len(rows) |->
     CHOOSE x \in {rows[n] : n \in 1..Len(rows)} :
       Cardinality({n \in 1..Len(rows) : rows[n].syncedAt < x.syncedAt}) = k - 1]

\* orderBy: { syncedAt: 'desc' }
OrderBySyncedAtDesc(rows) ==
  [k \in 1..Len(rows) |->
     CHOOSE x \in {rows[n] : n \in 1..Len(rows)} :
       Cardinality({n \in 1..Len(rows) : rows[n].syncedAt > x.syncedAt}) = k - 1]

\* take: limit
Take(rows, limit) == SubSeq(rows, 1, IF limit < Len(rows) THEN limit ELSE Len(rows))

\* getSyncLogs(limit)
GetSyncLogs(log, limit) == Take(OrderBySyncedAtDesc(Stamped(log)), limit)

\* details[config.id] = count
Put(details, id, count) ==
  [x \in (DOMAIN details) \cup {id} |-> IF x = id THEN count ELSE details[x]]

\* ------------------------------------------------------------- bounds

\* Runs of syncHolidays started in one behaviour.
MaxRuns == 2

\* Admin requests made in one behaviour.
MaxEdits == 2

\* new Date().getFullYear() at the time of the runs.
CurrentYear == 2025

\* ------------------------------------------------------ the environment

Runners == {"cron", "manual"}

ProviderIds == {"nager-us", "calendarific-us", "abstract-us", "custom-x"}

\* The year a caller of POST /api/sync-holidays sends; 0 stands for none.
YearArgs == {0, CurrentYear + 1}

\* The next leap year, which a caller may send as well.
LeapYear == CurrentYear + 3

Day(y, m, d) == <<y, "-", m, "-", d>>

Config(id, type, enabled, apiKey, category, color) ==
  [id |-> id, type |-> type, enabled |-> enabled, apiKey |-> apiKey,
   category |-> category, color |-> color, dateField |-> Undefined,
   titleField |-> Undefined, responsePathToHolidays |-> <<>>]

DEFAULT_CONFIGS ==
  << Config("nager-us", "nager", FALSE, Undefined, "federal", "#3B82F6"),
     Config("calendarific-us", "calendarific", FALSE, "", "fun", "#10B981") >>

\* A stored config list, and a fresh install that has stored none.
Stored(list) == [present |-> TRUE, value |-> list]
NoSetting == [present |-> FALSE, value |-> <<>>]

\* getApiConfigs: the stored list, DEFAULT_CONFIGS when there is none.
GetApiConfigs(row) == IF row.present THEN row.value ELSE DEFAULT_CONFIGS

\* The DEFAULT_CONFIGS of routes/apiConfig.ts, which carry no color.
ROUTE_DEFAULT_CONFIGS ==
  << Config("nager-us", "nager", FALSE, Undefined, "federal", Undefined),
     Config("calendarific-us", "calendarific", FALSE, "", "fun", Undefined) >>

\* { ...config, ...updates }
Merge(config, updates) ==
  [f \in DOMAIN config |-> IF f \in DOMAIN updates THEN updates[f] ELSE config[f]]

\* configs.findIndex(c => c.id === id), 0 for -1
FindIndex(list, id) ==
  LET hits == {n \in 1..Len(list) : list[n].id = id}
  IN  IF hits = {} THEN 0 ELSE CHOOSE n \in hits : \A m \in hits : n <= m

\* A response of a provider: 2xx with a payload, a failure (network error,
\* non-2xx), or the 402 whose body carries error.code = 'payment_required'.
\* `days` are the answers to the per-day requests of the free plan: the day
\* of the year `on` answers with `data`, the day `fail` fails, every other
\* day answers with an empty array.
NoDays == [on |-> 0, data |-> Arr(<<>>), fail |-> 0]
Ok(data) == [status |-> "ok", data |-> data, days |-> NoDays]
Failed == [status |-> "error", data |-> Null, days |-> NoDays]
PaymentRequired(days) == [status |-> "quota", data |-> Null, days |-> days]

DayResponse(resp, dayOfYear) ==
  IF dayOfYear = resp.days.fail THEN Failed
  ELSE IF dayOfYear = resp.days.on THEN Ok(resp.days.data)
  ELSE Ok(Arr(<<>>))

\* Entries in each provider's wire format.
NagerFounders == [name |-> "Founders Day", date |-> Day("2025", "03", "15")]
NagerJuly4 == [name |-> "Independence Day", date |-> Day("2025", "07", "04")]
NagerNameless == [date |-> Day("2025", "12", "25")]
CalFounders ==
  [name |-> "Founders Day",
   date |-> [iso |-> <<"2025", "-", "03", "-", "15", "T", "00:00:00">>]]
CalDateless == [name |-> "Pizza Day"]
AbsFounders ==
  [name |-> "Founders Day", date_year |-> "2025", date_month |-> "3",
   date_day |-> "15"]
AbsJuly4 == [name |-> "Independence Day", date |-> <<"7", "/", "4", "/", "2025">>]
CustomFounders == [title |-> "Founders Day", date |-> Day("2025", "03", "15")]
AbsNameless == [date_year |-> "2025", date_month |-> "12", date_day |-> "25"]

NagerOn == Config("nager-us", "nager", TRUE, Undefined, "federal", "#3B82F6")
CalOn == Config("calendarific-us", "calendarific", TRUE, "k", "fun", "")
CalNoKey == Config("calendarific-us", "calendarific", TRUE, "", "fun", "#10B981")
AbsOn == Config("abstract-us", "abstract", TRUE, "k", "federal", "#06427F")
AbsNoKey == Config("abstract-us", "abstract", TRUE, Undefined, "federal", "#06427F")
CustomOn ==
  [Config("custom-x", "custom", TRUE, Undefined, "company", "") EXCEPT
     !.responsePathToHolidays = <<"data", ".", "holidays">>,
     !.titleField = "title"]

AllFail == [id \in ProviderIds |-> Failed]
With(up, id, resp) == [up EXCEPT ![id] = resp]

CustomPayload(items) == Obj([data |-> Obj([holidays |-> Arr(items)])])

\* The configurations and provider behaviours the runs are checked on:
\* the stored config list, what each provider answers, and what it answers
\* after an upstream change.
Scenario(row, up, other) == [setting |-> row, upstream |-> up, alt |-> other]

Scenarios ==
  { Scenario(NoSetting, AllFail, AllFail),
    Scenario(Stored(<<NagerOn, DEFAULT_CONFIGS[2]>>),
             With(AllFail, "nager-us", Ok(Arr(<<NagerFounders, NagerJuly4>>))),
             AllFail),
    Scenario(Stored(<<NagerOn>>),
             With(AllFail, "nager-us", Ok(Arr(<<NagerJuly4, NagerJuly4>>))),
             With(AllFail, "nager-us", Ok(Arr(<<NagerJuly4, NagerNameless, NagerFounders>>)))),
    Scenario(Stored(<<NagerOn, CalOn>>),
             With(AllFail, "calendarific-us",
                  Ok(Obj([response |-> Obj([holidays |-> Arr(<<CalDateless, CalFounders>>)])]))),
             With(With(AllFail, "nager-us", Ok(Obj([error |-> Null]))),
                  "calendarific-us", Ok(Obj([meta |-> Null])))),
    Scenario(Stored(<<CalNoKey, NagerOn>>),
             With(AllFail, "nager-us", Ok(Arr(<<NagerJuly4>>))),
             With(AllFail, "calendarific-us",
                  Ok(Obj([response |-> Obj([holidays |-> Arr(<<CalFounders>>)])])))),
    Scenario(Stored(<<AbsOn, NagerOn>>),
             With(With(AllFail, "abstract-us", Ok(Arr(<<AbsFounders, AbsJuly4>>))),
                  "nager-us", Ok(Arr(<<NagerJuly4>>))),
             With(AllFail, "abstract-us", Ok(Obj([error |-> Null])))),
    Scenario(Stored(<<AbsNoKey>>),
             With(AllFail, "abstract-us", Ok(Arr(<<AbsFounders>>))),
             AllFail),
    Scenario(Stored(<<AbsOn>>),
             With(AllFail, "abstract-us",
                  PaymentRequired([on |-> 8, data |-> Arr(<<AbsJuly4>>), fail |-> 3])),
             With(AllFail, "abstract-us", Ok(Null))),
    Scenario(Stored(<<AbsOn>>),
             With(AllFail, "abstract-us",
                  PaymentRequired([on |-> 8, data |-> Arr(<<AbsJuly4, AbsNameless>>),
                                   fail |-> 0])),
             AllFail),
    Scenario(Stored(<<CustomOn, NagerOn>>),
             With(With(AllFail, "custom-x", Ok(CustomPayload(<<CustomFounders, NagerNameless, NagerJuly4>>))),
                  "nager-us", Ok(Arr(<<NagerFounders>>))),
             With(AllFail, "custom-x", Ok(Obj([data |-> Arr(<<NagerFounders>>)])))) }

Row(title, date, category, color, source, visible, recurring) ==
  [title |-> title, date |-> date, category |-> category, color |-> color,
   source |-> source, visible |-> visible, recurring |-> recurring]

\* Holiday stores left by the admin routes and the seed script, none with two
\* rows of one (title, date, source).
SeedStores ==
  { <<>>,
    << Row("Founders Day", Day("2024", "03", "15"), "company", "#06427F",
           "custom", TRUE, TRUE) >>,
    << Row("Leap Day Sale", Day("2024", "02", "29"), "company", "#059669",
           "custom", FALSE, TRUE) >>,
    << Row("Independence Day", Day("2024", "07", "04"), "federal", "#3B82F6",
           "nager-us", TRUE, TRUE) >>,
    << Row("Founders Day", Day("2023", "03", "15"), "company", "#06427F",
           "custom", TRUE, TRUE),
       Row("Founders Day", Day("2024", "03", "15"), "fun", "#7B7E77",
           "custom", TRUE, TRUE) >>,
    << Row("Founders Day", Day("2024", "03", "15"), "company", "#06427F",
           "custom", TRUE, TRUE),
       Row("Founders Day", Day("2025", "03", "15"), "federal", "#3B82F6",
           "nager-us", TRUE, FALSE) >> }

\* ---------------------------------------------------------------- state

VARIABLES
  holidays,    \* the Holiday table, in id order
  syncLog,     \* the SyncLog table, in insertion order
  setting,     \* the Settings row of key holiday_api_configs, if there is one
  upstream,    \* what each provider answers now
  alt,         \* what each provider answers after the next upstream change
  http,        \* requests issued so far, per provider id
  run,         \* the syncHolidays call of each trigger: its locals and position
  runs,        \* syncHolidays calls started so far
  last,        \* the latest completed syncHolidays call
  overlapped,  \* whether two syncHolidays calls have been in flight at once
  admin,       \* the admin request each admin session has in flight
  edits,       \* admin requests made so far
  logs         \* the latest response of GET /api/sync-holidays/logs

vars ==
  <<holidays, syncLog, setting, upstream, alt, http, run, runs, last, overlapped,
    admin, edits, logs>>

ZeroResult == [total |-> 0, recurring |-> 0, details |-> <<>>]

Snapshot == [holidays |-> holidays, syncLog |-> syncLog, http |-> http]

\* A trigger with no syncHolidays call in flight.
Idle ==
  [pc |-> "idle", year |-> 0, enabled |-> <<>>, i |-> 0, list |-> <<>>, j |-> 0,
   count |-> 0, title |-> Undefined, date |-> NoDate, day |-> 0, totalCount |-> 0,
   total |-> 0, details |-> <<>>, counts |-> <<>>, rec |-> <<>>, k |-> 0,
   rollStart |-> <<>>, rolled |-> FALSE, threw |-> FALSE, slept |-> FALSE,
   result |-> ZeroResult,
   start |-> [holidays |-> <<>>, syncLog |-> <<>>,
              http |-> [id \in ProviderIds |-> 0]]]

NoLast ==
  [valid |-> FALSE, year |-> 0, enabled |-> <<>>, upstream |-> AllFail,
   holidays |-> <<>>, rolled |-> FALSE, created |-> 0]

\* No response of GET /api/sync-holidays/logs yet.
NoLogs == [param |-> 0, limit |-> 0, rows |-> <<>>]

\* An admin session with no request in flight.
NoRequest == [pc |-> "idle", list |-> <<>>]
Admins == {"a1"}

Init ==
  /\ \E sc \in Scenarios :
       /\ setting = sc.setting
       /\ upstream = sc.upstream
       /\ alt = sc.alt
  /\ holidays \in SeedStores
  /\ syncLog = <<>>
  /\ http = [id \in ProviderIds |-> 0]
  /\ run = [r \in Runners |-> Idle]
  /\ runs = 0
  /\ last = NoLast
  /\ overlapped = FALSE
  /\ admin = [a \in Admins |-> NoRequest]
  /\ edits = 0
  /\ logs = NoLogs

AllIdle == \A r \in Runners : run[r].pc = "idle"

\* The config the provider loop of r is at.
Current(l) == l.enabled[l.i]

\* (a provider loop that hands over to the roller after every adapter)
ReturnedToRoller(l, count) ==
  [l EXCEPT !.details = Put(l.details, Current(l).id, count),
            !.total = @ + count,
            !.counts = Append(@, count),
            !.i = @ + 1,
            !.list = <<>>, !.j = 0, !.count = 0, !.day = 0, !.totalCount = 0,
            !.title = Undefined, !.date = NoDate,
            !.pc = "findMany"]

\* syncHolidays: the adapter returned count; details, total, the next
\* provider, and after the last one syncRecurringHolidays.
Returned(l, count) ==
  [l EXCEPT !.details = Put(l.details, Current(l).id, count),
            !.total = @ + count,
            !.counts = Append(@, count),
            !.i = @ + 1,
            !.list = <<>>, !.j = 0, !.count = 0, !.day = 0, !.totalCount = 0,
            !.title = Undefined, !.date = NoDate,
            !.pc = IF l.i + 1 > Len(l.enabled) THEN "findMany" ELSE "dispatch"]

\* (an adapter without its try/catch: the error leaves syncHolidays)
Rethrown(l) == [l EXCEPT !.pc = "return", !.threw = TRUE]

\* An error reached the catch block of an adapter: log it, return 0.
Caught(l) == [l EXCEPT !.pc = "logError"]

\* year || new Date().getFullYear()
TargetYear(year) == IF year = 0 THEN CurrentYear ELSE year

\* (no early return: an empty provider loop, then the roller)
BeginWithoutEarlyReturn(l) ==
  IF Len(l.enabled) = 0 THEN [l EXCEPT !.pc = "findMany"]
  ELSE [l EXCEPT !.pc = "dispatch", !.i = 1]

\* syncHolidays: if (enabledConfigs.length === 0) return {0, 0, {}};
\* otherwise the provider loop begins.
Begin(l) ==
  IF Len(l.enabled) = 0 THEN [l EXCEPT !.pc = "return", !.result = ZeroResult]
  ELSE [l EXCEPT !.pc = "dispatch", !.i = 1]

\* syncHolidays up to the provider loop: the target year, getApiConfigs, the
\* enabled filter, the early return.
StartRun(r, year) ==
  /\ run[r].pc = "idle"
  /\ runs < MaxRuns
  /\ run' = [run EXCEPT ![r] =
               Begin([Idle EXCEPT !.year = TargetYear(year),
                                  !.enabled = EnabledConfigs(GetApiConfigs(setting)),
                                  !.start = Snapshot])]
  /\ runs' = runs + 1
  /\ overlapped' = (overlapped \/ \E q \in Runners \ {r} : run[q].pc # "idle")
  /\ UNCHANGED <<holidays, syncLog, setting, upstream, alt, admin, edits, http, last, logs>>

\* cron.schedule('0 2 * * *'): syncHolidays()
Cron == StartRun("cron", 0)

\* POST /api/sync-holidays: syncHolidays(year ? parseInt(year, 10) : undefined)
Manual == \E year \in YearArgs : StartRun("manual", year)

\* POST /api/sync-holidays with the next leap year in the body.
ManualLeap == StartRun("manual", LeapYear)

\* syncFromApi: the switch on config.type, and the key check that opens the
\* calendarific and abstract adapters.
Dispatch(r) ==
  /\ run[r].pc = "dispatch"
  /\ LET l == run[r]
         config == Current(l)
     IN  run' = [run EXCEPT ![r] =
                   IF ~KnownType(config) \/ SkippedForKey(config)
                   THEN Returned(l, 0)
                   ELSE [l EXCEPT !.pc = "fetch"]]
  /\ UNCHANGED <<holidays, syncLog, setting, upstream, alt, admin, edits, http, runs, last, overlapped, logs>>

\* The adapter's bulk axios.get and what it makes of the answer.
Fetch(r) ==
  /\ run[r].pc = "fetch"
  /\ LET l == run[r]
         config == Current(l)
         resp == upstream[config.id]
         hs == HolidaysOf(config, resp.data)
     IN  /\ http' = [http EXCEPT ![config.id] = @ + 1]
         /\ run' = [run EXCEPT ![r] =
              CASE resp.status = "quota" /\ config.type = "abstract" ->
                     [l EXCEPT !.pc = "dayFetch", !.day = 1, !.totalCount = 0,
                               !.slept = FALSE]
                [] resp.status # "ok" -> Caught(l)
                [] hs.act = "throw" -> Caught(l)
                [] hs.act = "return0" -> Returned(l, 0)
                [] OTHER -> [l EXCEPT !.pc = "iterate", !.list = hs.list,
                                      !.j = 1, !.count = 0]]
  /\ UNCHANGED <<holidays, syncLog, setting, upstream, alt, admin, edits, runs, last, overlapped, logs>>

\* After the last entry of a list: the bulk path logs, the free-plan path
\* adds the day's count and sleeps.
LoopDone(l) ==
  IF l.day = 0 THEN [l EXCEPT !.pc = "logSuccess"]
  ELSE [l EXCEPT !.pc = "sleep", !.totalCount = @ + l.count]

\* The head of an adapter's loop over the holidays and its findFirst.
Iterate(r) ==
  /\ run[r].pc = "iterate"
  /\ LET l == run[r]
         config == Current(l)
     IN  run' = [run EXCEPT ![r] =
           IF l.j > Len(l.list) THEN LoopDone(l)
           ELSE LET e == EntryOf(config, l.list[l.j])
                    existing == FindFirst(holidays,
                                  [title |-> e.title, date |-> e.date,
                                   source |-> config.id])
                IN  IF e.skip \/ existing # 0 THEN [l EXCEPT !.j = @ + 1]
                    ELSE [l EXCEPT !.pc = "create", !.title = e.title,
                                   !.date = e.date]]
  /\ UNCHANGED <<holidays, syncLog, setting, upstream, alt, admin, edits, http, runs, last, overlapped, logs>>

\* A throw inside processHolidays on the free-plan path lands in the per-day
\* catch: the day is skipped, without the delay.
NextDay(l) ==
  [l EXCEPT !.day = @ + 1, !.list = <<>>, !.j = 0, !.count = 0,
            !.title = Undefined, !.date = NoDate,
            !.pc = IF l.day + 1 > DaysInYear(l.year) THEN "logFree" ELSE "dayFetch"]

\* (a failed day ends the loop of the free plan)
DayFailureEndsLoop(l) == [l EXCEPT !.pc = "logFree"]

\* catch (dayError) { }: the loop goes on with the next day.
DayCaught(l) == NextDay(l)

\* prisma.holiday.create of an adapter, and count++.
Create(r) ==
  /\ run[r].pc = "create"
  /\ LET l == run[r]
         config == Current(l)
     IN  IF CreateThrows(l.title, l.date)
         THEN /\ run' = [run EXCEPT ![r] = IF l.day = 0 THEN Caught(l) ELSE DayCaught(l)]
              /\ UNCHANGED holidays
         ELSE /\ holidays' = Append(holidays, ProviderRow(config, l.title, l.date))
              /\ run' = [run EXCEPT ![r] =
                           [l EXCEPT !.pc = "iterate", !.count = @ + 1, !.j = @ + 1,
                                     !.title = Undefined, !.date = NoDate]]
  /\ UNCHANGED <<syncLog, setting, upstream, alt, admin, edits, http, runs, last, overlapped, logs>>

\* The success log row of an adapter's bulk path, and return count.
LogSuccess(r) ==
  /\ run[r].pc = "logSuccess"
  /\ LET l == run[r]
     IN  /\ syncLog' = SyncLogCreate(syncLog, LogRow(Current(l), "success",
                                              SyncedMessage(l.count, l.year)))
         /\ run' = [run EXCEPT ![r] = Returned(l, l.count)]
  /\ UNCHANGED <<holidays, setting, upstream, alt, admin, edits, http, runs, last, overlapped, logs>>

\* The catch block of an adapter: the error log row, and return 0.
LogError(r) ==
  /\ run[r].pc = "logError"
  /\ LET l == run[r]
     IN  /\ syncLog' = SyncLogCreate(syncLog, LogRow(Current(l), "error",
                                              ErrorMessage("error.message")))
         /\ run' = [run EXCEPT ![r] = Returned(l, 0)]
  /\ UNCHANGED <<holidays, setting, upstream, alt, admin, edits, http, runs, last, overlapped, logs>>

\* One per-day axios.get of the free-plan loop of syncAbstractApi.
DayFetch(r) ==
  /\ run[r].pc = "dayFetch"
  /\ LET l == run[r]
         config == Current(l)
         resp == DayResponse(upstream[config.id], l.day)
         dayHolidays == IF resp.data.t = "null" THEN Arr(<<>>) ELSE resp.data
     IN  /\ http' = [http EXCEPT ![config.id] = @ + 1]
         /\ run' = [run EXCEPT ![r] =
              IF resp.status # "ok" THEN DayCaught([l EXCEPT !.slept = FALSE])
              ELSE IF dayHolidays.t = "array" /\ Len(dayHolidays.v) > 0
              THEN [l EXCEPT !.pc = "iterate", !.list = dayHolidays.v, !.j = 1,
                             !.count = 0, !.slept = FALSE]
              ELSE [l EXCEPT !.pc = "sleep", !.slept = FALSE]]
  /\ UNCHANGED <<holidays, syncLog, setting, upstream, alt, admin, edits, runs, last, overlapped, logs>>

\* await new Promise(resolve => setTimeout(resolve, 1100)), then the next day.
Sleep(r) ==
  /\ run[r].pc = "sleep"
  /\ run' = [run EXCEPT ![r] = NextDay([run[r] EXCEPT !.slept = TRUE])]
  /\ UNCHANGED <<holidays, syncLog, setting, upstream, alt, admin, edits, http, runs, last, overlapped, logs>>

\* The success log row of the free-plan path, and return totalCount.
LogFree(r) ==
  /\ run[r].pc = "logFree"
  /\ LET l == run[r]
     IN  /\ syncLog' = SyncLogCreate(syncLog, LogRow(Current(l), "success",
                                              FreePlanMessage(l.totalCount, l.year)))
         /\ run' = [run EXCEPT ![r] = Returned(l, l.totalCount)]
  /\ UNCHANGED <<holidays, setting, upstream, alt, admin, edits, http, runs, last, overlapped, logs>>

\* syncRecurringHolidays: findMany of the recurring rows.
FindMany(r) ==
  /\ run[r].pc = "findMany"
  /\ run' = [run EXCEPT ![r] =
               [run[r] EXCEPT !.pc = "roll", !.rec = RecurringRows(holidays),
                              !.k = 1, !.count = 0, !.rolled = TRUE,
                              !.rollStart = holidays]]
  /\ UNCHANGED <<holidays, syncLog, setting, upstream, alt, admin, edits, http, runs, last, overlapped, logs>>

\* The head of the loop of syncRecurringHolidays and its findFirst; after
\* the last row syncHolidays builds its result.
Roll(r) ==
  /\ run[r].pc = "roll"
  /\ LET l == run[r]
     IN  run' = [run EXCEPT ![r] =
           IF l.k > Len(l.rec)
           THEN [l EXCEPT !.pc = "return",
                          !.result = [total |-> l.total, recurring |-> l.count,
                                      details |-> l.details]]
           ELSE LET h == l.rec[l.k]
                    existing == FindFirst(holidays,
                                  [title |-> h.title,
                                   date |-> RolledDate(h.date, l.year),
                                   source |-> Undefined])
                IN  IF existing # 0 THEN [l EXCEPT !.k = @ + 1]
                    ELSE [l EXCEPT !.pc = "rollCreate"]]
  /\ UNCHANGED <<holidays, syncLog, setting, upstream, alt, admin, edits, http, runs, last, overlapped, logs>>

\* prisma.holiday.create of syncRecurringHolidays, and count++.
RollCreate(r) ==
  /\ run[r].pc = "rollCreate"
  /\ LET l == run[r]
     IN  /\ holidays' = Append(holidays, RolledRow(l.rec[l.k], l.year))
         /\ run' = [run EXCEPT ![r] =
                      [l EXCEPT !.pc = "roll", !.count = @ + 1, !.k = @ + 1]]
  /\ UNCHANGED <<syncLog, setting, upstream, alt, admin, edits, http, runs, last, overlapped, logs>>

\* syncHolidays hands its result to the trigger that called it.
Return(r) ==
  /\ run[r].pc = "return"
  /\ last' = [valid |-> TRUE, year |-> run[r].year, enabled |-> run[r].enabled,
              upstream |-> upstream, holidays |-> holidays,
              rolled |-> run[r].rolled,
              created |-> Len(holidays) - Len(run[r].start.holidays)]
  /\ run' = [run EXCEPT ![r] = Idle]
  /\ UNCHANGED <<holidays, syncLog, setting, upstream, alt, admin, edits, http, runs, overlapped, logs>>

\* Between two runs the providers start to answer differently.
UpstreamChange ==
  /\ AllIdle
  /\ upstream # alt
  /\ upstream' = alt
  /\ alt' = upstream
  /\ UNCHANGED <<holidays, syncLog, setting, http, run, runs, last, overlapped, admin, edits, logs>>

\* The steps of a run outside the free-plan loop of syncAbstractApi.
BulkStep(r) ==
  \/ Dispatch(r) \/ Fetch(r) \/ Iterate(r) \/ Create(r)
  \/ LogSuccess(r) \/ LogError(r)
  \/ FindMany(r) \/ Roll(r) \/ RollCreate(r) \/ Return(r)

FreePlanStep(r) == DayFetch(r) \/ Sleep(r) \/ LogFree(r)

Step(r) == BulkStep(r) \/ FreePlanStep(r)

\* Runs of syncHolidays that do not overlap.
Next ==
  \/ AllIdle /\ Cron
  \/ AllIdle /\ Manual
  \/ AllIdle /\ ManualLeap
  \/ \E r \in Runners : Step(r)
  \/ UpstreamChange

Spec == Init /\ [][Next]_vars

\* ------------------------------------------------- overlapping triggers

\* The empty store and the store of one visible custom row.
SmallStores ==
  {st \in SeedStores :
     \A n \in DOMAIN st : Len(st) = 1 /\ st[n].source = "custom" /\ st[n].visible}

\* The scenarios whose enabled configs are nager and keyed calendarific ones.
RaceScenarios ==
  {sc \in Scenarios :
     /\ sc.setting.present
     /\ \A n \in DOMAIN sc.setting.value :
          LET config == sc.setting.value[n]
          IN  config.enabled =>
                config.type \in {"nager", "calendarific"} /\ ~SkippedForKey(config)}

InitRace ==
  /\ Init
  /\ holidays \in SmallStores
  /\ \E sc \in RaceScenarios :
       /\ setting = sc.setting
       /\ upstream = sc.upstream
       /\ alt = sc.alt

\* Nothing keeps the cron job from firing while POST /api/sync-holidays is
\* being served, or the other way round: each await of one call may be
\* followed by a step of the other.  The triggers fire until the first call
\* has returned.
NextRace ==
  \/ ~last.valid /\ Cron
  \/ ~last.valid /\ Manual
  \/ \E r \in Runners : BulkStep(r)

SpecRace == InitRace /\ [][NextRace]_vars

\* ------------------------------------------------------ the admin routes

\* The bodies an admin sends to PUT /api/holiday-apis/:id, and the ids.
ConfigUpdates == {[category |-> "fun"], [category |-> "company"]}
ConfigIdParams == {"nager-us", "no-such-id"}

\* PUT /api/holiday-apis/:id up to its upsert: the stored list (or the
\* defaults), findIndex, 404 for an unknown id, the merge.
PutConfigRead(a) ==
  /\ admin[a].pc = "idle"
  /\ edits < MaxEdits
  /\ \E id \in ConfigIdParams, updates \in ConfigUpdates :
       LET configs == IF setting.present THEN setting.value ELSE ROUTE_DEFAULT_CONFIGS
           index == FindIndex(configs, id)
       IN  admin' = [admin EXCEPT ![a] =
                       IF index = 0 THEN NoRequest
                       ELSE [pc |-> "upsert",
                             list |-> [configs EXCEPT ![index] = Merge(@, updates)]]]
  /\ edits' = edits + 1
  /\ UNCHANGED <<holidays, syncLog, setting, upstream, alt, http, run, runs, last, overlapped, logs>>

\* PUT /api/holiday-apis/:id: prisma.settings.upsert of the merged list.
PutConfigWrite(a) ==
  /\ admin[a].pc = "upsert"
  /\ setting' = Stored(admin[a].list)
  /\ admin' = [admin EXCEPT ![a] = NoRequest]
  /\ UNCHANGED <<holidays, syncLog, upstream, alt, http, run, runs, last, overlapped, edits, logs>>

\* prisma.holiday.update: the fields the body defines replace the row's.
Updated(h, body) ==
  [f \in DOMAIN h |-> IF f \in DOMAIN body THEN body[f] ELSE h[f]]

\* PUT /api/holidays/:id: findUnique, 404 for an id that is not there, the
\* update of the fields of the body.
UpdateHoliday(a, n, body) ==
  /\ admin[a].pc = "idle"
  /\ edits < MaxEdits
  /\ holidays' = IF n \in 1..Len(holidays)
                 THEN [holidays EXCEPT ![n] = Updated(@, body)]
                 ELSE holidays
  /\ edits' = edits + 1
  /\ UNCHANGED <<syncLog, setting, upstream, alt, http, run, runs, last, overlapped, admin, logs>>

\* PUT /api/holidays/:id with body {recurring: true}: the row is flagged to
\* roll, its other columns stay.
PutHoliday(a) ==
  \E n \in 1..Len(holidays) :
    /\ ~holidays[n].recurring
    /\ UpdateHoliday(a, n, [recurring |-> TRUE])

\* A fresh install, and the scenarios of the overlapping triggers.
AdminScenarios == {sc \in Scenarios : ~sc.setting.present \/ sc \in RaceScenarios}

InitAdmin ==
  /\ Init
  /\ holidays \in SmallStores
  /\ \E sc \in AdminScenarios :
       /\ setting = sc.setting
       /\ upstream = sc.upstream
       /\ alt = sc.alt

\* Runs that do not overlap, with admin requests served at any point, also
\* between two steps of a run.
NextAdmin ==
  \/ AllIdle /\ Cron
  \/ AllIdle /\ Manual
  \/ \E r \in Runners : BulkStep(r)
  \/ \E a \in Admins : PutConfigRead(a)
  \/ \E a \in Admins : PutConfigWrite(a)
  \/ \E a \in Admins : PutHoliday(a)

SpecAdmin == InitAdmin /\ [][NextAdmin]_vars

\* ---------------------------------------------------- the holiday routes

\* The bodies an admin sends to PUT /api/holidays/:id.
HolidayUpdates ==
  { [visible |-> FALSE], [color |-> "#000000"], [recurring |-> TRUE],
    [category |-> "company"], [date |-> Day("2025", "07", "04")] }

\* The bodies an admin sends to POST /api/holidays.
HolidayInputs ==
  { [title |-> "Independence Day", date |-> Day("2025", "07", "04"),
     category |-> "federal", source |-> "nager-us"],
    [title |-> "Founders Day", date |-> Day("2024", "03", "15"),
     category |-> "company", recurring |-> TRUE],
    [title |-> "Office Closed", category |-> "company"] }

\* PUT /api/holidays/:id for any row (or an id that is not there) and body.
PutHolidayAny(a) ==
  \E n \in 1..(Len(holidays) + 1), body \in HolidayUpdates : UpdateHoliday(a, n, body)

\* POST /api/holidays: 400 without title, date or category; otherwise
\* prisma.holiday.create with the defaults of the route.
PostHoliday(a) ==
  /\ admin[a].pc = "idle"
  /\ edits < MaxEdits
  /\ \E body \in HolidayInputs :
       holidays' =
         IF Falsy(GetStr(body, "title")) \/ GetDate(body, "date") = NoDate
            \/ Falsy(GetStr(body, "category"))
         THEN holidays
         ELSE Append(holidays,
                     Row(body.title, body.date, body.category,
                         IF Falsy(GetStr(body, "color")) THEN "#06427F" ELSE body.color,
                         IF Falsy(GetStr(body, "source")) THEN "custom" ELSE body.source,
                         IF "visible" \in DOMAIN body THEN body.visible ELSE TRUE,
                         IF "recurring" \in DOMAIN body THEN body.recurring ELSE FALSE))
  /\ edits' = edits + 1
  /\ UNCHANGED <<syncLog, setting, upstream, alt, http, run, runs, last, overlapped, admin, logs>>

\* The scenarios of a single nager config.
NagerScenarios ==
  {sc \in RaceScenarios :
     Len(sc.setting.value) = 1 /\ sc.setting.value[1].type = "nager"}

\* The provider answers as the scenario has it now or as it has it later.
InitHolidays ==
  /\ \E sc \in NagerScenarios :
       /\ setting = sc.setting
       /\ \/ upstream = sc.upstream /\ alt = sc.alt
          \/ upstream = sc.alt /\ alt = sc.upstream
  /\ holidays = <<>>
  /\ syncLog = <<>>
  /\ http = [id \in ProviderIds |-> 0]
  /\ run = [r \in Runners |-> Idle]
  /\ runs = 0
  /\ last = NoLast
  /\ overlapped = FALSE
  /\ admin = [a \in Admins |-> NoRequest]
  /\ edits = 0
  /\ logs = NoLogs

\* Runs that do not overlap, and between them the admin's holiday requests.
NextHolidays ==
  \/ AllIdle /\ Cron
  \/ AllIdle /\ Manual
  \/ \E r \in Runners : BulkStep(r)
  \/ AllIdle /\ \E a \in Admins : PutHolidayAny(a)
  \/ AllIdle /\ \E a \in Admins : PostHoliday(a)

SpecHolidays == InitHolidays /\ [][NextHolidays]_vars

\* ----------------------------------------------------- the config routes

\* Two admin sessions whose requests the server may serve interleaved.
ConfigAdmins == {"a1", "a2"}

\* A second config of the id of NagerOn.
NagerTwin == [NagerOn EXCEPT !.category = "fun"]

\* A config an admin adds, and a body of POST /add without an id.
CustomOff == Config("custom-x", "custom", FALSE, Undefined, "company", "")
AddBodies == {CustomOff, NagerTwin, [type |-> "custom"]}

\* The bodies of POST /api/holiday-apis: config lists and a non-array.
SaveAllBodies == {Arr(<<NagerOn, NagerTwin>>), Arr(<<CalOn, NagerOn>>), Null}

\* The ids and bodies of PUT and DELETE /api/holiday-apis/:id.
PutIdParams == {"nager-us", "no-such-id"}
PutBodies == {[enabled |-> TRUE], [id |-> "calendarific-us"]}
DeleteIdParams == {"calendarific-us", "no-such-id"}

\* No operation: a session that has completed none.
NoOp == [kind |-> "none"]

\* A session of the config routes: its position, the list it is about to
\* store, its operation, and the last operation it completed with success.
ConfigRequest(pc, list, op, did) == [pc |-> pc, list |-> list, op |-> op, did |-> did]

\* configSetting ? JSON.parse(configSetting.value) : [...DEFAULT_CONFIGS]
RouteConfigs(row) == IF row.present THEN row.value ELSE ROUTE_DEFAULT_CONFIGS

\* configs.splice(index, 1)
Splice(list, index) == SubSeq(list, 1, index - 1) \o SubSeq(list, index + 1, Len(list))

\* POST /api/holiday-apis: 400 unless configs is an array, else the upsert of
\* the list as it came.
SaveAll(a) ==
  /\ admin[a].pc = "idle"
  /\ edits < MaxEdits
  /\ \E configs \in SaveAllBodies :
       IF configs.t # "array"
       THEN UNCHANGED <<setting, admin>>
       ELSE /\ setting' = Stored(configs.v)
            /\ admin' = [admin EXCEPT ![a] =
                            ConfigRequest("idle", <<>>, NoOp, [kind |-> "save"])]
  /\ edits' = edits + 1
  /\ UNCHANGED <<holidays, syncLog, upstream, alt, http, run, runs, last, overlapped, logs>>

\* POST /api/holiday-apis/add up to its upsert: 400 for a missing required
\* field, the stored list (or the defaults), 400 for an id that is in it,
\* the push.
AddConfigRead(a) ==
  /\ admin[a].pc = "idle"
  /\ edits < MaxEdits
  /\ \E newConfig \in AddBodies :
       LET configs == RouteConfigs(setting)
       IN  admin' = [admin EXCEPT ![a] =
             IF "id" \notin DOMAIN newConfig THEN @
             ELSE IF \E n \in 1..Len(configs) : configs[n].id = newConfig.id THEN @
             ELSE ConfigRequest("upsert", Append(configs, newConfig),
                                [kind |-> "add", id |-> newConfig.id, config |-> newConfig],
                                @.did)]
  /\ edits' = edits + 1
  /\ UNCHANGED <<holidays, syncLog, setting, upstream, alt, http, run, runs, last, overlapped, logs>>

\* PUT /api/holiday-apis/:id up to its upsert, for bodies that may carry an id.
UpdateConfigRead(a) ==
  /\ admin[a].pc = "idle"
  /\ edits < MaxEdits
  /\ \E id \in PutIdParams, updates \in PutBodies :
       LET configs == RouteConfigs(setting)
           index == FindIndex(configs, id)
       IN  admin' = [admin EXCEPT ![a] =
             IF index = 0 THEN @
             ELSE ConfigRequest("upsert", [configs EXCEPT ![index] = Merge(@, updates)],
                                [kind |-> "update", id |-> id, updates |-> updates],
                                @.did)]
  /\ edits' = edits + 1
  /\ UNCHANGED <<holidays, syncLog, setting, upstream, alt, http, run, runs, last, overlapped, logs>>

\* DELETE /api/holiday-apis/:id up to its upsert: findIndex, 404, splice.
DeleteConfigRead(a) ==
  /\ admin[a].pc = "idle"
  /\ edits < MaxEdits
  /\ \E id \in DeleteIdParams :
       LET configs == RouteConfigs(setting)
           index == FindIndex(configs, id)
       IN  admin' = [admin EXCEPT ![a] =
             IF index = 0 THEN @
             ELSE ConfigRequest("upsert", Splice(configs, index),
                                [kind |-> "delete", id |-> id], @.did)]
  /\ edits' = edits + 1
  /\ UNCHANGED <<holidays, syncLog, setting, upstream, alt, http, run, runs, last, overlapped, logs>>

\* prisma.settings.upsert of the list the request built, and its 200.
ConfigUpsert(a) ==
  /\ admin[a].pc = "upsert"
  /\ setting' = Stored(admin[a].list)
  /\ admin' = [admin EXCEPT ![a] = ConfigRequest("idle", <<>>, NoOp, @.op)]
  /\ UNCHANGED <<holidays, syncLog, upstream, alt, http, run, runs, last, overlapped, edits, logs>>

\* No request of the config routes is between its read and its upsert.
NoConfigRequest == \A a \in ConfigAdmins : admin[a].pc = "idle"

\* A server with one recurring custom row, on a fresh install or with a
\* stored list, whose nager provider answers and whose calendarific one fails.
InitConfigs ==
  /\ setting \in {NoSetting, Stored(<<NagerOn, CalOn>>)}
  /\ upstream = With(AllFail, "nager-us", Ok(Arr(<<NagerJuly4>>)))
  /\ alt = upstream
  /\ holidays \in {st \in SmallStores : Len(st) = 1}
  /\ syncLog = <<>>
  /\ http = [id \in ProviderIds |-> 0]
  /\ run = [r \in Runners |-> Idle]
  /\ runs = 0
  /\ last = NoLast
  /\ overlapped = FALSE
  /\ admin = [a \in ConfigAdmins |-> ConfigRequest("idle", <<>>, NoOp, NoOp)]
  /\ edits = 0
  /\ logs = NoLogs

\* Requests of the config routes, interleaved between their read and their
\* upsert, and runs between the requests.
NextConfigs ==
  \/ \E a \in ConfigAdmins : AllIdle /\ SaveAll(a)
  \/ \E a \in ConfigAdmins : AllIdle /\ AddConfigRead(a)
  \/ \E a \in ConfigAdmins : AllIdle /\ UpdateConfigRead(a)
  \/ \E a \in ConfigAdmins : AllIdle /\ DeleteConfigRead(a)
  \/ \E a \in ConfigAdmins : ConfigUpsert(a)
  \/ AllIdle /\ NoConfigRequest /\ Cron
  \/ AllIdle /\ NoConfigRequest /\ Manual
  \/ \E r \in Runners : BulkStep(r)

SpecConfigs == InitConfigs /\ [][NextConfigs]_vars

\* ------------------------------------------------------- runs to the end

\* The scenarios with an abstract config: its bulk path, its key check and
\* its free-plan loop, with a day that fails and a day that answers.
LiveScenarios ==
  {sc \in Scenarios :
     /\ sc.setting.present
     /\ \E n \in DOMAIN sc.setting.value : sc.setting.value[n].type = "abstract"}

InitLive ==
  /\ \E sc \in LiveScenarios :
       /\ setting = sc.setting
       /\ upstream = sc.upstream
       /\ alt = sc.alt
  /\ holidays \in {st \in SmallStores : Len(st) = 1}
  /\ syncLog = <<>>
  /\ http = [id \in ProviderIds |-> 0]
  /\ run = [r \in Runners |-> Idle]
  /\ runs = 0
  /\ last = NoLast
  /\ overlapped = FALSE
  /\ admin = [a \in Admins |-> NoRequest]
  /\ edits = 0
  /\ logs = NoLogs

NextLive ==
  \/ AllIdle /\ Cron
  \/ AllIdle /\ ManualLeap
  \/ \E r \in Runners : Step(r)
  \/ UpstreamChange

\* Every await of a started run settles: the request or store call it waits
\* for returns or fails, and the run takes its next step.
SpecLive == InitLive /\ [][NextLive]_vars /\ \A r \in Runners : WF_vars(Step(r))

\* ------------------------------------------------------- the sync log

\* The limit of getSyncLogs when the request names none.
DefaultLimit == 20

\* The limit query parameter of GET /api/sync-holidays/logs; 0 stands for none.
LimitParams == {0, 1, 2, DefaultLimit + 1}

\* req.query.limit ? parseInt(req.query.limit, 10) : 20
RouteLimit(param) == IF param = 0 THEN DefaultLimit ELSE param

\* GET /api/sync-holidays/logs
GetLogs ==
  /\ \E param \in LimitParams :
       logs' = [param |-> param, limit |-> RouteLimit(param),
                rows |-> GetSyncLogs(syncLog, RouteLimit(param))]
  /\ UNCHANGED <<holidays, syncLog, setting, upstream, alt, http, run, runs, last,
                 overlapped, admin, edits>>

\* The log rows that n earlier provider syncs left: errors and successes.
OldLog(n) ==
  [k \in 1..n |->
     IF k % 2 = 1 THEN LogRow(NagerOn, "error", ErrorMessage("error.message"))
     ELSE LogRow(CalOn, "success", SyncedMessage(k, CurrentYear - 1))]

\* A server with one custom row, whose sync log is empty, just below or just
\* above the default limit, with a failing nager provider and an answering
\* calendarific one.
InitLogs ==
  /\ \E sc \in RaceScenarios :
       /\ Len(sc.setting.value) = 2
       /\ sc.setting.value[2] = CalOn
       /\ setting = sc.setting
       /\ upstream = sc.upstream
       /\ alt = sc.alt
  /\ holidays \in {st \in SmallStores : Len(st) = 1}
  /\ syncLog \in {OldLog(0), OldLog(DefaultLimit - 1), OldLog(DefaultLimit + 1)}
  /\ http = [id \in ProviderIds |-> 0]
  /\ run = [r \in Runners |-> Idle]
  /\ runs = 0
  /\ last = NoLast
  /\ overlapped = FALSE
  /\ admin = [a \in Admins |-> NoRequest]
  /\ edits = 0
  /\ logs = NoLogs

\* Runs that do not overlap, with reads of the log at any point.
NextLogs ==
  \/ AllIdle /\ Cron
  \/ AllIdle /\ Manual
  \/ \E r \in Runners : BulkStep(r)
  \/ GetLogs

SpecLogs == InitLogs /\ [][NextLogs]_vars

\* ------------------------------------------------------------ the claims

\* A syncHolidays call that has built its result and is about to hand it over.
Done(r) == run[r].pc = "return"

\* Rows of the sync log written for the provider id.
LogCount(log, id) == Cardinality({n \in 1..Len(log) : log[n].source = id})

\* Two rows of one (title, date, source).
Duplicate(store, m, n) ==
  /\ m # n
  /\ store[m].title = store[n].title
  /\ store[m].date = store[n].date
  /\ store[m].source = store[n].source

\* The month and day of a date string, and its year.
MonthDay(date) == <<Part(Split(date, "-"), 2), Part(Split(date, "-"), 3)>>
YearOf(date) == Part(Split(date, "-"), 1)

\* The run of r repeats the latest completed run: the same year, the same
\* enabled configs, the same provider answers, and the store as that run
\* left it.
Repeats(r) ==
  /\ last.valid
  /\ last.year = run[r].year
  /\ last.enabled = run[r].enabled
  /\ last.upstream = upstream
  /\ last.holidays = run[r].start.holidays

Attempts(config) ==
  /\ config.type \in {"nager", "calendarific", "abstract", "custom"}
  /\ ~(config.type \in {"calendarific", "abstract"} /\ config.apiKey \in {Undefined, ""})

\* C2 (as claimed): in a completed run the sync log gains exactly one row per
\* enabled provider attempt, whatever the type of the config and whatever the
\* provider answered.
C2_OneLogRowPerAttempt ==
  \A r \in Runners :
    Done(r) =>
      \A p \in 1..Len(run[r].enabled) :
        LET id == run[r].enabled[p].id
        IN  Attempts(run[r].enabled[p]) =>
              LogCount(syncLog, id) =
                LogCount(run[r].start.syncLog, id)
                + Cardinality({q \in 1..Len(run[r].enabled) :
                                 run[r].enabled[q].id = id /\ Attempts(run[r].enabled[q])})

\* C3: under non-overlapping runs no two holiday rows share a
\* (title, date, source) triple.
C3_NoDuplicateTriple ==
  \A m, n \in 1..Len(holidays) : ~Duplicate(holidays, m, n)

\* A response lists one holiday twice: the run created the first and is at the
\* second, in a store that also holds a recurring row.
C3_Witness ==
  \E r \in Runners :
    /\ run[r].pc = "iterate"
    /\ run[r].j > 1 /\ run[r].j <= Len(run[r].list)
    /\ run[r].list[run[r].j] = run[r].list[run[r].j - 1]
    /\ run[r].count = 1
    /\ \E n \in 1..Len(holidays) : holidays[n].recurring

\* C4: the existence check and the create are separate steps and nothing
\* serializes the cron job and POST /api/sync-holidays, so two rows of one
\* (title, date, source) arise through calls that interleave, and only
\* through them: a store with two such rows has seen two calls of
\* syncHolidays in flight at once.
C4_DuplicateOnlyByOverlap ==
  (\E m, n \in 1..Len(holidays) : Duplicate(holidays, m, n)) => overlapped

\* Both calls passed findFirst for one (title, date, source) of a provider
\* and both created it.
C4_Witness ==
  /\ overlapped
  /\ \E m, n \in 1..Len(holidays) :
       /\ Duplicate(holidays, m, n)
       /\ holidays[m].source \in ProviderIds
       /\ ~holidays[m].recurring
       /\ m > Len(run["cron"].start.holidays)
       /\ n > Len(run["cron"].start.holidays)
  /\ \A r \in Runners : run[r].pc \in {"iterate", "logSuccess"} /\ run[r].count > 0

RECURSIVE Sum(_)
Sum(counts) == IF counts = <<>> THEN 0 ELSE Head(counts) + Sum(Tail(counts))

\* The config is one whose adapter issues its bulk request, and that request
\* fails (a network error, a non-2xx status).
KeyBased(config) == config.type \in {"calendarific", "abstract"}
Keyless(config) == KeyBased(config) /\ config.apiKey \in {Undefined, ""}
FetchThrows(config) ==
  /\ config.type \in {"nager", "calendarific", "abstract", "custom"}
  /\ ~Keyless(config)
  /\ upstream[config.id].status # "ok"

\* The failure is the 402 payment_required that sends syncAbstractApi into
\* its day-by-day loop.
FallsBack(config) ==
  config.type = "abstract" /\ upstream[config.id].status = "quota"

\* The last enabled config of its id: the one whose count details keeps.
LastOfId(l, p) == \A q \in 1..Len(l.enabled) : l.enabled[q].id = l.enabled[p].id => q <= p

\* Every enabled provider was dispatched, the roller ran and the run returned.
Isolated(l) ==
  /\ ~l.threw
  /\ Len(l.counts) = Len(l.enabled)
  /\ l.rolled
  /\ l.result.total = Sum(l.counts)

\* C5 (as claimed): a provider whose fetch throws stops neither the later
\* providers nor the roller nor the return, and contributes 0 to total and
\* details.
C5_FailedFetchContributesZero ==
  \A r \in Runners :
    Done(r) /\ run[r].enabled # <<>> =>
      /\ Isolated(run[r])
      /\ \A p \in 1..Len(run[r].enabled) :
           FetchThrows(run[r].enabled[p]) =>
             /\ run[r].counts[p] = 0
             /\ LastOfId(run[r], p) => run[r].result.details[run[r].enabled[p].id] = 0

\* C5 (amended): the same, except that an abstract provider whose request
\* fails with payment_required contributes what its day-by-day loop created.
C5_ProviderIsolation ==
  \A r \in Runners :
    Done(r) /\ run[r].enabled # <<>> =>
      /\ Isolated(run[r])
      /\ \A p \in 1..Len(run[r].enabled) :
           FetchThrows(run[r].enabled[p]) /\ ~FallsBack(run[r].enabled[p]) =>
             /\ run[r].counts[p] = 0
             /\ LastOfId(run[r], p) => run[r].result.details[run[r].enabled[p].id] = 0

\* A provider failed and the one after it created a row.
C5_Witness ==
  \E r \in Runners :
    /\ Done(r)
    /\ \E p \in 1..(Len(run[r].enabled) - 1) :
         /\ FetchThrows(run[r].enabled[p]) /\ ~FallsBack(run[r].enabled[p])
         /\ run[r].counts[p + 1] > 0

\* Every row whose source is the id of a config has that config's category.
CategoryIsConfigCategory(store, row) ==
  \A n \in 1..Len(store) :
    \A p \in 1..Len(GetApiConfigs(row)) :
      GetApiConfigs(row)[p].id = store[n].source =>
        store[n].category = GetApiConfigs(row)[p].category

\* A step of a syncHolidays call leaves the rows there are and their category.
SyncKeepsCategory ==
  run' # run =>
    /\ Len(holidays') >= Len(holidays)
    /\ \A n \in 1..Len(holidays) : holidays'[n].category = holidays[n].category

\* A row an adapter creates has the category of the config as the call loaded
\* it; a row the roller creates has the category of the row it rolls.
CreatedWithCategory ==
  \A r \in Runners :
    run'[r] # run[r] /\ Len(holidays') = Len(holidays) + 1 =>
      /\ run[r].pc = "create" =>
           holidays'[Len(holidays')].category = Current(run[r]).category
      /\ run[r].pc = "rollCreate" =>
           holidays'[Len(holidays')].category = run[r].rec[run[r].k].category

\* C6 (as claimed): in every state each row whose source is a config id has
\* the category that config has now, and no step of a sync changes the
\* category of a row that exists; also with admin edits of a config's
\* category and rollover of provider-sourced rows.
C6_CategoryIsCurrentConfigCategory ==
  [][CategoryIsConfigCategory(holidays', setting') /\ SyncKeepsCategory]_vars

\* C6 (amended): a row an adapter creates has the category of its config as
\* the call loaded it, a row the roller creates has the category of the row
\* it rolls, and no step of a sync changes the category of a row that exists.
C6_CategoryFixedAtCreation ==
  [][SyncKeepsCategory /\ CreatedWithCategory]_vars

\* After an admin changed the category of nager-us and flagged one of its rows
\* as recurring, a call rolled that row into the next year with the category
\* it had, which is not the config's any more.
C6_Witness ==
  /\ \E r \in Runners : Done(r) /\ run[r].rolled
  /\ \E n \in 1..Len(holidays) :
       /\ holidays[n].source = "nager-us"
       /\ holidays[n].recurring
       /\ YearOf(holidays[n].date) = YearStr(CurrentYear + 1)
       /\ \E p \in 1..Len(GetApiConfigs(setting)) :
            /\ GetApiConfigs(setting)[p].id = "nager-us"
            /\ GetApiConfigs(setting)[p].category # holidays[n].category

\* The date with the month and day of `date` in `year`.
InYear(date, year) ==
  <<ToString(year), "-">> \o MonthDay(date)[1] \o <<"-">> \o MonthDay(date)[2]

\* The rows of the store with the title of h, dated as h in `year`.
Twins(store, h, year) ==
  {n \in 1..Len(store) :
     store[n].title = h.title /\ store[n].date = InYear(h.date, year)}

\* The first recurring row the roller read with the title, month and day of h.
FirstLike(rec, h, year) ==
  rec[CHOOSE k \in 1..Len(rec) :
        /\ rec[k].title = h.title /\ InYear(rec[k].date, year) = InYear(h.date, year)
        /\ \A m \in 1..(k - 1) :
             ~(rec[m].title = h.title /\ InYear(rec[m].date, year) = InYear(h.date, year))]

\* Rolling again: a run in the year of the previous run, which rolled, on the
\* store that run left, creates no recurring row.
RollsAgainToNothing(r) ==
  last.valid /\ last.rolled /\ last.year = run[r].year
    /\ last.holidays = run[r].start.holidays
    => run[r].result.recurring = 0

\* C7 (as claimed): for every recurring row that has no row of its title at
\* its month and day in the target year, the roller creates exactly one such
\* row, with the category, color and source of that recurring row and
\* recurring = true; rolling again creates nothing.
C7_RolledFromEachRow ==
  \A r \in Runners :
    Done(r) /\ run[r].rolled =>
      /\ \A k \in 1..Len(run[r].rec) :
           LET h == run[r].rec[k]
           IN  Twins(run[r].rollStart, h, run[r].year) = {} =>
                 /\ Cardinality(Twins(holidays, h, run[r].year)) = 1
                 /\ \A n \in Twins(holidays, h, run[r].year) :
                      /\ holidays[n].category = h.category
                      /\ holidays[n].color = h.color
                      /\ holidays[n].source = h.source
                      /\ holidays[n].recurring
      /\ RollsAgainToNothing(r)

\* C7 (amended): the one row created takes category, color and source from
\* the first recurring row of that title, month and day (the row itself when
\* it is the only one).
C7_RolledFromFirstRow ==
  \A r \in Runners :
    Done(r) /\ run[r].rolled =>
      /\ \A k \in 1..Len(run[r].rec) :
           LET h == run[r].rec[k]
               g == FirstLike(run[r].rec, h, run[r].year)
           IN  Twins(run[r].rollStart, h, run[r].year) = {} =>
                 /\ Cardinality(Twins(holidays, h, run[r].year)) = 1
                 /\ \A n \in Twins(holidays, h, run[r].year) :
                      /\ holidays[n].category = g.category
                      /\ holidays[n].color = g.color
                      /\ holidays[n].source = g.source
                      /\ holidays[n].recurring
      /\ RollsAgainToNothing(r)

\* The roller created one row for two recurring rows of one title, month and
\* day that differ in category.
C7_Witness ==
  \E r \in Runners :
    /\ Done(r) /\ run[r].rolled
    /\ run[r].result.recurring = 1
    /\ \E k, m \in 1..Len(run[r].rec) :
         /\ k < m
         /\ run[r].rec[k].title = run[r].rec[m].title
         /\ MonthDay(run[r].rec[k].date) = MonthDay(run[r].rec[m].date)
         /\ run[r].rec[k].category # run[r].rec[m].category
         /\ Twins(run[r].rollStart, run[r].rec[m], run[r].year) = {}

C9_CronRollsRecurring ==
  Done("cron") =>
    \A n \in 1..Len(holidays) :
      holidays[n].recurring => Twins(holidays, holidays[n], CurrentYear) # {}

\* C10: the adapter of a calendarific or abstract config without apiKey
\* (unset or "") issues no request, creates no row, writes no log row and
\* returns 0.
C10_KeylessSkip ==
  [][\A r \in Runners :
       LET l == run[r]
       IN  /\ l.pc = "dispatch"
           /\ Keyless(l.enabled[l.i])
           /\ run'[r] # l
           => /\ http' = http
              /\ holidays' = holidays
              /\ syncLog' = syncLog
              /\ run'[r].i = l.i + 1
              /\ run'[r].counts = Append(l.counts, 0)
              /\ run'[r].details[l.enabled[l.i].id] = 0
              /\ run'[r].total = l.total]_vars

\* A completed run skipped a keyless config, whose provider was never
\* contacted, and went on to contact the provider after it.
C10_Witness ==
  \E r \in Runners :
    /\ Done(r)
    /\ \E p \in 1..(Len(run[r].enabled) - 1) :
         /\ Keyless(run[r].enabled[p])
         /\ run[r].enabled[p].apiKey = ""
         /\ run[r].counts[p] = 0
         /\ http[run[r].enabled[p].id] = 0
         /\ LogCount(syncLog, run[r].enabled[p].id) = 0
         /\ http[run[r].enabled[p + 1].id] > 0

\* The step is one of the syncHolidays call of r.
StepOf(r) == run'[r] # run[r] /\ run[r].pc # "idle"

\* C11: within one syncHolidays call the enabled providers are processed one
\* at a time in list order: a request goes to the provider the loop is at,
\* after every provider before it has returned; a log row is written for the
\* provider the loop is at, as its adapter returns; the loop moves on by one
\* provider at a time; and the roller runs once, after the last provider.
C11_ProvidersInListOrder ==
  [][\A r \in Runners :
       LET l == run[r]
       IN  StepOf(r) =>
             /\ http' # http =>
                  /\ Len(l.counts) = l.i - 1
                  /\ \A id \in ProviderIds :
                       http'[id] # http[id] => id = l.enabled[l.i].id
             /\ syncLog' # syncLog =>
                  /\ syncLog' = Append(syncLog, syncLog'[Len(syncLog')])
                  /\ syncLog'[Len(syncLog')].source = l.enabled[l.i].id
                  /\ Len(l.counts) = l.i - 1
                  /\ Len(run'[r].counts) = l.i
             /\ run'[r].pc # "idle" =>
                  /\ run'[r].i \in {l.i, l.i + 1}
                  /\ Len(run'[r].counts) \in {Len(l.counts), Len(l.counts) + 1}
                  /\ l.i > 0 => (run'[r].i = l.i + 1 <=> Len(run'[r].counts) = Len(l.counts) + 1)
             /\ run'[r].rolled /\ ~l.rolled =>
                  /\ l.enabled # <<>>
                  /\ Len(l.counts) = Len(l.enabled)
             /\ l.rolled => run'[r].pc \in {"roll", "rollCreate", "return", "idle"}]_vars

\* A call with two enabled providers that both were sent a request and both
\* were logged, the first before the second, and whose roller created a row.
C11_Witness ==
  \E r \in Runners :
    /\ Done(r) /\ Len(run[r].enabled) = 2
    /\ run[r].rolled /\ run[r].result.recurring > 0
    /\ http[run[r].enabled[1].id] > run[r].start.http[run[r].enabled[1].id]
    /\ http[run[r].enabled[2].id] > run[r].start.http[run[r].enabled[2].id]
    /\ Len(syncLog) = Len(run[r].start.syncLog) + 2
    /\ syncLog[Len(syncLog) - 1].source = run[r].enabled[1].id
    /\ syncLog[Len(syncLog)].source = run[r].enabled[2].id

\* Two rows of one (title, date, source).
SameTriple(g, h) == g.title = h.title /\ g.date = h.date /\ g.source = h.source

\* C12: a step of a syncHolidays call updates and deletes no row that is
\* there, whatever an admin made of its visible, color, recurring, category
\* (or date) before; the one thing it does to the store is append a row, and
\* never one with the (title, date, source) of a row that is there.
C12_NeverOverwrites ==
  [][\A r \in Runners :
       StepOf(r) =>
         \/ holidays' = holidays
         \/ /\ Len(holidays') = Len(holidays) + 1
            /\ SubSeq(holidays', 1, Len(holidays)) = holidays
            /\ \A n \in 1..Len(holidays) :
                 ~SameTriple(holidays[n], holidays'[Len(holidays')])]_vars

\* A call was answered with a holiday whose row, synced before, an admin had
\* hidden: the row is as the admin left it and it is the only one.
C12_Witness ==
  \E r \in Runners :
    /\ Done(r)
    /\ http["nager-us"] > run[r].start.http["nager-us"]
    /\ upstream["nager-us"].status = "ok"
    /\ \E n \in 1..Len(run[r].start.holidays) :
         /\ holidays[n] = [ProviderRow(NagerOn, NagerJuly4.name, NagerJuly4.date)
                              EXCEPT !.visible = FALSE]
         /\ \E e \in 1..Len(upstream["nager-us"].data.v) :
              upstream["nager-us"].data.v[e] = NagerJuly4
         /\ \A m \in 1..Len(holidays) : SameTriple(holidays[m], holidays[n]) => m = n
         /\ syncLog[1].source = "nager-us" /\ syncLog[1].status = "success"
         /\ syncLog[1].message.count > 0

\* C13: a row a provider adapter creates has the title and date of the
\* response entry the adapter is at, source = config.id, category =
\* config.category, color = config.color (the default color of the category
\* when config.color is empty), visible = true and recurring = false; and a
\* nager response of one entry, on a store that was empty, has created
\* exactly that one row when the adapter logs.
C13_ProviderRowShape ==
  [][\A r \in Runners :
       LET l == run[r]
           config == l.enabled[l.i]
       IN  /\ StepOf(r) /\ l.pc = "create" /\ holidays' # holidays =>
                LET new == holidays'[Len(holidays')]
                    e == EntryOf(config, l.list[l.j])
                IN  /\ holidays' = Append(holidays, new)
                    /\ new.title = e.title /\ new.title # Undefined
                    /\ new.date = e.date /\ new.date # NoDate
                    /\ new.source = config.id
                    /\ new.category = config.category
                    /\ new.color = IF config.color \in {Undefined, ""}
                                   THEN CATEGORY_COLORS(config.category)
                                   ELSE config.color
                    /\ new.visible /\ ~new.recurring
                    /\ DOMAIN new = DOMAIN Row("", <<>>, "", "", "", TRUE, FALSE)
           /\ /\ StepOf(r) /\ l.pc = "logSuccess" /\ config.type = "nager"
              /\ Len(l.list) = 1 /\ l.start.holidays = <<>> /\ l.total = 0
              /\ ~EntryOf(config, l.list[1]).skip
              => /\ l.count = 1
                 /\ holidays = << [title |-> l.list[1].name, date |-> l.list[1].date,
                                    category |-> config.category,
                                    color |-> config.color, source |-> config.id,
                                    visible |-> TRUE, recurring |-> FALSE] >>]_vars

\* A nager config with a color was answered with one entry on an empty
\* store and is about to log: the store holds the one row of that entry.
C13_Witness ==
  \E r \in Runners :
    /\ run[r].pc = "logSuccess" /\ run[r].start.holidays = <<>>
    /\ Current(run[r]) = NagerOn
    /\ run[r].list = <<NagerJuly4>> /\ run[r].total = 0
    /\ holidays = << Row("Independence Day", Day("2025", "07", "04"), "federal",
                         "#3B82F6", "nager-us", TRUE, FALSE) >>

\* Rows of the store that carry the provider id as source.
RowsOf(store, id) == {n \in 1..Len(store) : store[n].source = id}

\* The well-formed entries the provider returns on the days of the free-plan
\* loop that answer.
DayEntries(config) ==
  LET days == upstream[config.id].days
  IN  IF days.on = 0 \/ days.on = days.fail \/ days.data.t # "array" THEN {}
      ELSE {e \in {EntryOf(config, days.data.v[n]) : n \in 1..Len(days.data.v)} :
              ~e.skip /\ e.title # Undefined}

\* C14 (as claimed): when the bulk request of the abstract adapter fails with
\* payment_required, the adapter has, by the time it logs, issued one
\* request per day of the target year (365, 366 in a leap year) after the
\* bulk one, upserted every holiday the days returned, and returns the
\* number of rows it created; it writes one log row for the provider, of
\* status success with the free-plan message, and no error row.
C14_QuotaFallback ==
  [][\A r \in Runners :
       LET l == run[r]
           config == l.enabled[l.i]
           leap == (l.year % 4 = 0 /\ l.year % 100 # 0) \/ l.year % 400 = 0
       IN  StepOf(r) /\ l.pc = "logFree" =>
             /\ http[config.id] - l.start.http[config.id]
                  = 1 + (IF leap THEN 366 ELSE 365)
             /\ \A e \in DayEntries(config) :
                  \E n \in RowsOf(holidays, config.id) :
                    holidays[n].title = e.title /\ holidays[n].date = e.date
             /\ run'[r].counts[l.i]
                  = Cardinality(RowsOf(holidays, config.id))
                    - Cardinality(RowsOf(l.start.holidays, config.id))
             /\ LogCount(syncLog, config.id) = LogCount(l.start.syncLog, config.id)
             /\ syncLog' = Append(syncLog, syncLog'[Len(syncLog')])
             /\ syncLog'[Len(syncLog')].source = config.id
             /\ syncLog'[Len(syncLog')].status = "success"
             /\ syncLog'[Len(syncLog')].message.text = "Synced (free plan - day by day)"
             /\ DayEntries(config) = {EntryOf(config, AbsJuly4)}
                /\ RowsOf(l.start.holidays, config.id) = {}
                => Cardinality(RowsOf(holidays, config.id)) = 1]_vars

\* The payload holds an array of holidays where the adapter of the config
\* looks for one.
PayloadIsList(config, data) ==
  CASE config.type \in {"nager", "abstract"} -> data.t = "array"
    [] config.type = "calendarific" ->
         Walk(data, <<"response", "holidays">>).t = "array"
    [] OTHER ->
         (IF config.responsePathToHolidays = <<>> THEN data
          ELSE Walk(data, PathNames(config.responsePathToHolidays))).t = "array"

\* The adapter of the config made its request, and the request failed or was
\* answered with something that is no array of holidays.
FetchFailsOrMalformed(config) ==
  /\ Attempts(config)
  /\ \/ upstream[config.id].status # "ok"
     \/ ~PayloadIsList(config, upstream[config.id].data)

\* C15 (as claimed): an adapter of any type whose fetch fails or whose
\* response is not an array of holidays returns 0, having written one log
\* row with source = config.id and status = 'error', and does not throw.
C15_FailureIsLoggedAsError ==
  [][\A r \in Runners :
       LET l == run[r]
           config == l.enabled[l.i]
       IN  /\ StepOf(r) /\ l.i > 0 /\ l.i <= Len(l.enabled)
           /\ Len(run'[r].counts) = Len(l.counts) + 1
           /\ FetchFailsOrMalformed(config)
           => /\ run'[r].counts[l.i] = 0
              /\ ~run'[r].threw
              /\ Len(syncLog') = Len(syncLog) + 1
              /\ SubSeq(syncLog', 1, Len(syncLog)) = syncLog
              /\ syncLog'[Len(syncLog')].source = config.id
              /\ syncLog'[Len(syncLog')].status = "error"]_vars

\* The entry has the title and the date its adapter needs.
WellFormed(config, h) ==
  LET e == EntryOf(config, h)
  IN  ~e.skip /\ e.title # Undefined /\ e.date # NoDate

\* C16 (as claimed): when the response of a provider of any type is an array
\* of holidays of which some entry lacks its title or date, the adapter
\* returns having upserted every well-formed entry of the response, before
\* and after the malformed one, with their count, and having logged success.
C16_MalformedEntryIsLocal ==
  [][\A r \in Runners :
       LET l == run[r]
           config == l.enabled[l.i]
           data == upstream[config.id].data
           list == HolidaysOf(config, data).list
       IN  /\ StepOf(r) /\ l.i > 0 /\ l.i <= Len(l.enabled)
           /\ Len(run'[r].counts) = Len(l.counts) + 1
           /\ Attempts(config)
           /\ upstream[config.id].status = "ok" /\ PayloadIsList(config, data)
           /\ \E n \in 1..Len(list) : ~WellFormed(config, list[n])
           => /\ \A n \in 1..Len(list) :
                   WellFormed(config, list[n]) =>
                     \E m \in RowsOf(holidays', config.id) :
                       /\ holidays'[m].title = EntryOf(config, list[n]).title
                       /\ holidays'[m].date = EntryOf(config, list[n]).date
              /\ run'[r].counts[l.i]
                   = Cardinality(RowsOf(holidays', config.id))
                     - Cardinality(RowsOf(l.start.holidays, config.id))
              /\ Len(syncLog') = Len(syncLog) + 1
              /\ syncLog'[Len(syncLog')].source = config.id
              /\ syncLog'[Len(syncLog')].status = "success"]_vars

\* C17: the sync log is append-only: over any step of sync runs and reads of
\* the log, every row the log had is still there, unchanged and at its place;
\* the log only grows.
C17_LogAppendOnly ==
  [][/\ Len(syncLog') >= Len(syncLog)
     /\ SubSeq(syncLog', 1, Len(syncLog)) = syncLog]_vars

\* A run has added the failing provider's error row to a log of
\* DefaultLimit + 1 rows, and the log has been read after that.
C17_Witness ==
  /\ Len(syncLog) = DefaultLimit + 2
  /\ syncLog[Len(syncLog)].status = "error"
  /\ Len(logs.rows) = DefaultLimit
  /\ logs.rows[1] = Stamped(syncLog)[Len(syncLog)]

\* The syncedAt values of the rows of a response.
Returned_syncedAt(rows) == {rows[k].syncedAt : k \in 1..Len(rows)}

\* C18: getSyncLogs(limit) is a pure read: it returns at most limit rows of
\* the log, the limit most recent ones, by syncedAt descending, so that every
\* returned row is at least as recent as every row not returned; it changes
\* neither the sync log nor the holiday store; without a limit it takes 20.
C18_GetSyncLogs ==
  [][logs' # logs =>
       LET rows == logs'.rows
           limit == logs'.limit
           table == Stamped(syncLog)
       IN  /\ limit = IF logs'.param = 0 THEN 20 ELSE logs'.param
           /\ Len(rows) <= limit
           /\ Len(rows) = limit \/ Len(rows) = Len(syncLog)
           /\ \A k \in 1..Len(rows) :
                /\ rows[k].syncedAt \in 1..Len(syncLog)
                /\ rows[k] = table[rows[k].syncedAt]
           /\ \A j, k \in 1..Len(rows) : j < k => rows[j].syncedAt > rows[k].syncedAt
           /\ \A n \in 1..Len(syncLog) :
                n \notin Returned_syncedAt(rows) =>
                  \A k \in 1..Len(rows) : rows[k].syncedAt >= n
           /\ syncLog' = syncLog
           /\ holidays' = holidays
           /\ setting' = setting
           /\ run' = run]_vars

\* The log was read without a limit after runs had brought it past twenty
\* rows: the response has the twenty latest rows and leaves older ones out.
C18_Witness ==
  /\ logs.param = 0
  /\ Len(logs.rows) = DefaultLimit
  /\ Len(syncLog) > DefaultLimit + 1
  /\ logs.rows[1].syncedAt = Len(syncLog)
  /\ logs.rows[DefaultLimit].syncedAt > 1
  /\ last.valid

\* The rows of the store with the (title, date, source) of the row.
TripleOf(store, h) == {n \in 1..Len(store) : SameTriple(store[n], h)}

\* C19: in every state that sync runs, recurrence rollovers and the admin's
\* POST /api/holidays and PUT /api/holidays/:id lead to, the store holds at
\* most one row for a (title, date, source) triple.
C19_StoreWideUniqueness ==
  \A n \in 1..Len(holidays) : Cardinality(TripleOf(holidays, holidays[n])) <= 1

\* The configs of the stored list that are switched off while another is on.
DisabledBesideEnabled ==
  LET list == GetApiConfigs(setting)
  IN  {list[n] : n \in {m \in 1..Len(list) :
                          /\ ~list[m].enabled
                          /\ \E e \in 1..Len(list) : list[e].enabled}}

\* The steps of the provider loop, before syncRecurringHolidays.
ProviderDispatch(r) == StepOf(r) /\ run[r].pc \notin {"findMany", "roll", "rollCreate", "return"}

\* C20: in a syncHolidays run with an enabled provider, a config with
\* enabled = false gets no HTTP request, no holiday row of its id from the
\* provider dispatch, no sync-log row of its id, and no key in the details.
C20_DisabledSkippedEntirely ==
  [][\A r \in Runners, config \in DisabledBesideEnabled :
       StepOf(r) =>
         /\ http'[config.id] = http[config.id]
         /\ LogCount(syncLog', config.id) = LogCount(syncLog, config.id)
         /\ ProviderDispatch(r) => RowsOf(holidays', config.id) = RowsOf(holidays, config.id)
         /\ config.id \notin DOMAIN run'[r].details
         /\ config.id \notin DOMAIN run'[r].result.details]_vars

\* A run over an enabled and a disabled config has gone through its provider
\* loop, created rows and is about to return.
C20_Witness ==
  \E r \in Runners :
    /\ run[r].pc = "return"
    /\ DisabledBesideEnabled # {}
    /\ DOMAIN run[r].result.details # {}
    /\ Len(holidays) > Len(run[r].start.holidays)

\* C21: syncRecurringHolidays(Y) reads every row with recurring = true,
\* whatever its source or category; for each it creates the row dated Y-MM-DD
\* only if the store has no row of that title and date under any source; the
\* created row has the category, color, source and visible of its original
\* and recurring = true.
C21_RollerDedupAndInheritance ==
  [][\A r \in Runners :
       StepOf(r) =>
         LET l == run[r]
         IN  /\ l.pc = "findMany" =>
                  \A n \in 1..Len(holidays) :
                    holidays[n].recurring =>
                      \E k \in 1..Len(run'[r].rec) : run'[r].rec[k] = holidays[n]
             /\ l.pc = "roll" /\ l.k <= Len(l.rec) =>
                  /\ holidays' = holidays
                  /\ (run'[r].pc = "rollCreate") = (Twins(holidays, l.rec[l.k], l.year) = {})
             /\ l.pc = "rollCreate" =>
                  /\ Len(holidays') = Len(holidays) + 1
                  /\ SubSeq(holidays', 1, Len(holidays)) = holidays
                  /\ Twins(holidays, l.rec[l.k], l.year) = {}
                  /\ LET h == l.rec[l.k]
                         new == holidays'[Len(holidays')]
                     IN  /\ new.title = h.title
                         /\ new.date = InYear(h.date, l.year)
                         /\ new.category = h.category
                         /\ new.color = h.color
                         /\ new.source = h.source
                         /\ new.visible = h.visible
                         /\ new.recurring
             /\ l.pc \in {"findMany", "roll"} /\ run'[r].pc # "rollCreate" =>
                  holidays' = holidays]_vars

\* The roller has passed a recurring provider row without creating anything,
\* because a row of its title and target date exists under another source.
C21_Witness ==
  \E r \in Runners :
    /\ run[r].pc = "roll" /\ run[r].k = 2 /\ run[r].count = 0
    /\ run[r].rec[1].source # "custom"
    /\ \E n \in Twins(holidays, run[r].rec[1], run[r].year) :
         holidays[n].source # run[r].rec[1].source

\* The per-day request of the day fails.
DayFails(config, dayOfYear) == DayResponse(upstream[config.id], dayOfYear).status # "ok"

\* Every entry the answering day returns has a title and a date.
DayDataWellFormed(config) ==
  LET days == upstream[config.id].days
  IN  days.data.t = "array" =>
        \A n \in 1..Len(days.data.v) :
          LET e == EntryOf(config, days.data.v[n])
          IN  ~e.skip /\ e.title # Undefined /\ e.date # NoDate

C23_DelayBetweenDayRequests ==
  \A r \in Runners : run[r].pc = "dayFetch" /\ run[r].day > 1 => run[r].slept

\* C24: whatever requests of POST /api/holiday-apis, POST /add, PUT /:id and
\* DELETE /:id were served, in whatever interleaving, no two configs of the
\* stored list have the same id.
C24_ConfigIdsUnique ==
  LET list == RouteConfigs(setting)
  IN  \A m, n \in 1..Len(list) : m # n => list[m].id # list[n].id

\* The list shows the effect of a completed add, update or delete.
Reflects(list, op) ==
  CASE op.kind = "add" -> \E n \in 1..Len(list) : list[n] = op.config
    [] op.kind = "update" ->
         \E n \in 1..Len(list) :
           /\ \A f \in DOMAIN op.updates : list[n][f] = op.updates[f]
           /\ "id" \in DOMAIN op.updates \/ list[n].id = op.id
    [] op.kind = "delete" -> \A n \in 1..Len(list) : list[n].id # op.id
    [] OTHER -> TRUE

\* C25: config mutations are atomic for their callers: when a request stores
\* its list, the effect of every add, update or delete on another id that
\* another session completed with success, and that the stored list shows, is
\* still in the stored list; no successful mutation is lost to another
\* request's read-modify-write.
C25_NoLostConfigMutation ==
  [][\A a, b \in ConfigAdmins :
       /\ a # b
       /\ admin[a].pc = "upsert" /\ admin'[a].pc = "idle"
       /\ admin[b].did.kind \in {"add", "update", "delete"}
       /\ admin[b].did.id # admin[a].op.id
       /\ Reflects(RouteConfigs(setting), admin[b].did)
       => Reflects(RouteConfigs(setting'), admin[b].did)]_vars

\* The sum of the values of details.
RECURSIVE SumOfDetails(_)
SumOfDetails(details) ==
  IF DOMAIN details = {} THEN 0
  ELSE LET id == CHOOSE x \in DOMAIN details : TRUE
       IN  details[id] + SumOfDetails([x \in DOMAIN details \ {id} |-> details[x]])

\* C29: a completed syncHolidays run with an enabled provider returns
\* details with exactly one key per enabled config and a total that is the
\* sum of the values of details, for every config list the store can hold,
\* one with two enabled configs of one id included.
C29_AggregateConsistency ==
  \A r \in Runners :
    Done(r) /\ Len(run[r].enabled) > 0 /\ ~run[r].threw =>
      /\ DOMAIN run[r].result.details = {run[r].enabled[n].id : n \in 1..Len(run[r].enabled)}
      /\ Cardinality(DOMAIN run[r].result.details) = Len(run[r].enabled)
      /\ run[r].result.total = SumOfDetails(run[r].result.details)

\* The value the dot-separated segments of the path lead to in the payload.
Target(config, data) ==
  IF config.responsePathToHolidays = <<>> THEN data
  ELSE Walk(data, PathNames(config.responsePathToHolidays))

\* The entry has the title field and the date field the config names
\* ('name' and 'date' when it names none).
TitleFieldOf(config) ==
  IF config.titleField \in {Undefined, ""} THEN "name" ELSE config.titleField
DateFieldOf(config) ==
  IF config.dateField \in {Undefined, ""} THEN "date" ELSE config.dateField
HasBothFields(config, h) ==
  /\ TitleFieldOf(config) \in DOMAIN h /\ h[TitleFieldOf(config)] \notin {Undefined, ""}
  /\ DateFieldOf(config) \in DOMAIN h /\ h[DateFieldOf(config)] # NoDate

\* C26: the custom adapter reaches the holiday array by looking up the
\* segments of responsePathToHolidays in turn; when a segment is absent or
\* the value reached is no array it creates nothing and returns 0 without
\* throwing; otherwise it upserts exactly the entries that have the
\* configured title field and date field.
C26_CustomPathWalk ==
  [][\A r \in Runners :
       LET l == run[r]
           config == l.enabled[l.i]
           target == Target(config, upstream[config.id].data)
       IN  StepOf(r) /\ l.pc \in {"fetch", "logSuccess"} /\ config.type = "custom" =>
             /\ l.pc = "fetch" /\ upstream[config.id].status = "ok" /\ target.t # "array" =>
                  /\ holidays' = holidays
                  /\ ~run'[r].threw
                  /\ run'[r].pc \notin {"logError", "iterate"}
                  /\ run'[r].counts = Append(l.counts, 0)
             /\ l.pc = "fetch" /\ upstream[config.id].status = "ok" /\ target.t = "array" =>
                  /\ run'[r].pc = "iterate"
                  /\ run'[r].list = target.v
             /\ l.pc = "logSuccess" =>
                  /\ \A j \in 1..Len(l.list) :
                       HasBothFields(config, l.list[j]) =>
                         \E n \in RowsOf(holidays, config.id) :
                           /\ holidays[n].title = l.list[j][TitleFieldOf(config)]
                           /\ holidays[n].date = l.list[j][DateFieldOf(config)]
                  /\ \A n \in RowsOf(holidays, config.id) \ RowsOf(l.start.holidays, config.id) :
                       \E j \in 1..Len(l.list) :
                         /\ HasBothFields(config, l.list[j])
                         /\ holidays[n].title = l.list[j][TitleFieldOf(config)]
                         /\ holidays[n].date = l.list[j][DateFieldOf(config)]
                  /\ Len(holidays) - Len(l.start.holidays) <= Len(l.list)]_vars

\* The custom adapter walked data.holidays to a list of three entries, of
\* which one has the configured title field and a date, created that one and
\* is about to log.
C26_Witness ==
  \E r \in Runners :
    /\ run[r].pc = "logSuccess"
    /\ run[r].enabled[run[r].i].type = "custom"
    /\ run[r].enabled[run[r].i].titleField = "title"
    /\ Len(run[r].list) = 3
    /\ run[r].count = 1
    /\ Cardinality({j \in 1..3 : HasBothFields(run[r].enabled[run[r].i], run[r].list[j])}) = 1

\* C27: every syncHolidays call that has begun completes, also through the
\* quota fallback loop and when its per-day requests fail; the loop makes
\* exactly daysInYear iterations, one request each.
C27_Termination ==
  /\ \A r \in Runners : (run[r].pc # "idle") ~> (run[r].pc = "return")
  /\ \A r \in Runners : (run[r].pc = "return") ~> (run[r].pc = "idle")
  /\ [](\A r \in Runners :
          run[r].pc = "logFree" =>
            LET l == run[r]
                leap == (l.year % 4 = 0 /\ l.year % 100 # 0) \/ l.year % 400 = 0
                id == l.enabled[l.i].id
            IN  /\ l.day - 1 = IF leap THEN 366 ELSE 365
                /\ http[id] - l.start.http[id] = 1 + (IF leap THEN 366 ELSE 365))

\* A run for a leap year that went through the fallback loop, one of whose
\* per-day requests failed, has built its result: 367 requests were made.
C27_Witness ==
  \E r \in Runners :
    /\ run[r].pc = "return"
    /\ run[r].year = LeapYear
    /\ \E n \in 1..Len(run[r].enabled) :
         LET id == run[r].enabled[n].id
         IN  /\ upstream[id].status = "quota"
             /\ upstream[id].days.fail > 0
             /\ http[id] - run[r].start.http[id] = 367

\* The date is a February 29.
IsLeapDay(date) == Len(date) = 5 /\ date[3] = "02" /\ date[5] = "29"

\* C28: every row syncRecurringHolidays(Y) creates is dated Y-MM-DD with the
\* MM and DD of its original, unchanged and unvalidated: a recurring row of
\* February 29 rolled to a common year Y yields a row dated Y-02-29.
C28_YearSwapVerbatim ==
  [][\A r \in Runners :
       LET l == run[r]
           h == l.rec[l.k]
           new == holidays'[Len(holidays')]
       IN  /\ StepOf(r) /\ l.pc = "rollCreate" =>
                /\ Len(holidays') = Len(holidays) + 1
                /\ Len(h.date) = 5 =>
                     new.date = <<ToString(l.year), "-", h.date[3], "-", h.date[5]>>
                /\ IsLeapDay(h.date) /\ l.year = CurrentYear =>
                     new.date = <<"2025", "-", "02", "-", "29">>
           /\ (/\ StepOf(r) /\ l.pc = "roll" /\ l.k <= Len(l.rec)
               /\ IsLeapDay(h.date)
               /\ \A n \in 1..Len(holidays) :
                    ~(/\ holidays[n].title = h.title
                      /\ holidays[n].date = <<ToString(l.year), "-", "02", "-", "29">>))
              => run'[r].pc = "rollCreate"]_vars

\* The roller of a run for the common year 2025 has created the row dated
\* 2025-02-29 from a recurring row of 2024-02-29.
C28_Witness ==
  \E r \in Runners :
    /\ run[r].pc = "roll" /\ run[r].k > 1 /\ run[r].year = CurrentYear
    /\ IsLeapDay(run[r].rec[run[r].k - 1].date)
    /\ holidays[Len(holidays)].date = <<"2025", "-", "02", "-", "29">>
    /\ Len(holidays) = Len(run[r].rollStart) + 1

\* C30: in every completed syncHolidays run details[id] is the number of
\* rows of source id that the provider dispatch added to the store during
\* the run, and recurring is the number of rows the roller added, also when
\* an adapter fails part-way through a response after creating rows.
C30_CountsMatchWrites ==
  \A r \in Runners :
    Done(r) /\ run[r].rolled =>
      /\ \A id \in DOMAIN run[r].result.details :
           run[r].result.details[id]
             = Cardinality(RowsOf(run[r].rollStart, id))
               - Cardinality(RowsOf(run[r].start.holidays, id))
      /\ run[r].result.recurring = Len(holidays) - Len(run[r].rollStart)

====
